---- MODULE Spec2Model ----
(***************************************************************************)
(* NFTService (src/src/api/services/nft.ts): the aggregation of indexer    *)
(* records with the local stores (NftModel, NftViewModel, UserModel,       *)
(* FollowModel).  Every await of a handler is a step of its own, so that   *)
(* concurrent requests interleave where the code lets them.                *)
(***************************************************************************)
EXTENDS Integers, Sequences, FiniteSets, TLC

\* ---------------------------------------------------------------- bounds
MaxTime == 2
MaxViews == 2
MaxBatch == 2
MaxTotal == 2
MaxDocs == 2
MaxCodes == 2

\* The cooldown, in clock ticks of the model (the code measures milliseconds).
TIME_BETWEEN_SAME_USER_VIEWS == 1

\* ------------------------------------------------------------ value sets
NULL == "<null>"
UNDEFINED == "<undefined>"

Procs == {1, 2}

\* What the indexer knows: ids "1" and "2" are two mints of serie "s1",
\* ids "3" and "4" have no serie.  Id "9" does not exist upstream.
ChainNFTs ==
  { [id |-> "1", serieId |-> "s1"], [id |-> "2", serieId |-> "s1"],
    [id |-> "3", serieId |-> "0"],  [id |-> "4", serieId |-> "0"] }

\* viewerIp: null (the default), the empty string, or an address.
ViewerIps == {NULL, "", "1.2.3.4", "5.6.7.8"}
ViewerWalletIds == {NULL}

\* JavaScript truthiness of a string-or-null value.
Truthy(v) == v # NULL /\ v # UNDEFINED /\ v # ""

VARIABLES
  now,        \* the wall clock read by +new Date()
  nftViews,   \* the NftViewModel collection, in insertion order
  pc,         \* per request: where getNFT stands
  arg,        \* per request: the arguments of getNFT
  NFT,        \* per request: result.nftEntities.nodes[0]
  date,       \* per request: const date
  viewsLength, \* per request: views.length, all that is read of views after line 67
  result,     \* per request: what getNFT returned or threw
  last        \* history: the most recent getNFT call that returned, made with
              \* incViews and a viewer address

viewVars == <<now, nftViews, pc, arg, NFT, date, viewsLength, result, last>>

VARIABLES
  nftModel,   \* the NftModel collection, in insertion order
  catCall     \* the last getNFTsFromCategories call: its codes and its outcome

catVars == <<nftModel, catCall>>

VARIABLES
  listPc,         \* where the list operation stands
  listOp,         \* which list operation is running
  listNFTs,       \* const NFTs: the nodes the indexer returned
  lookups,        \* per node: the state of its populateNFT promise
  lookupsIssued,  \* how many populateNFT calls the operation has made
  listResult      \* what the list operation returned or threw

listVars == <<listPc, listOp, listNFTs, lookups, lookupsIssued, listResult>>

VARIABLES
  follows,        \* the FollowModel collection: <<follower, followed>> user ids
  statPc,         \* where getStatNFTsUser stands
  userWalletId,   \* its argument
  user,           \* const user
  replies,        \* what the six promises of line 137 resolved with
  queriesIssued,  \* how many of the six queries were issued
  statResult      \* what getStatNFTsUser returned or threw

statVars == <<follows, statPc, userWalletId, user, replies, queriesIssued, statResult>>

vars == <<viewVars, catVars, listVars, statVars>>

NoArg == [id |-> NULL, incViews |-> FALSE, viewerWalletId |-> NULL, viewerIp |-> NULL]
NoNFT == [id |-> NULL, serieId |-> NULL]
NoResult == [kind |-> "none", viewsCount |-> 0, error |-> NULL]
NoLast == [id |-> NULL, viewerIp |-> NULL, date |-> 0, recorded |-> FALSE]
NoUser == [_id |-> NULL, walletId |-> NULL]
NoCatCall == [kind |-> "none", byCodes |-> FALSE, codes |-> <<>>, nodes |-> {}, error |-> NULL]
NoListResult == [kind |-> "none", nodes |-> <<>>, error |-> NULL]
NoReplies == [owned |-> 0, ownedListed |-> 0, ownedUnlisted |-> 0, created |-> 0,
              followers |-> {}, followed |-> {}]
NoStatResult == [kind |-> "none", error |-> NULL, countOwned |-> 0,
                 countOwnedListed |-> 0, countOwnedUnlisted |-> 0, countCreated |-> 0,
                 countFollowers |-> 0, countFollowed |-> 0]

\* ------------------------------------------------------------ getNFT
\* QueriesBuilder.NFTfromId(id) answered by the indexer: the nodes whose id is id.
NFTfromId(id) == {n \in ChainNFTs : n.id = id}

\* Mutant: the events are always looked up by serie, also for serie "0".
ViewFilter_AlwaysSerie(nft, id) == [field |-> "viewedSerie", value |-> nft.serieId]

\* The NftViewModel.find filter of line 66.
ViewFilter(nft, id) ==
  IF nft.serieId # "0" THEN [field |-> "viewedSerie", value |-> nft.serieId]
                       ELSE [field |-> "viewedId", value |-> id]

MatchesFilter(v, f) ==
  IF f.field = "viewedSerie" THEN v.viewedSerie = f.value ELSE v.viewedId = f.value

FindViews(store, f) == SelectSeq(store, LAMBDA v : MatchesFilter(v, f))

SetMax(S) == CHOOSE m \in S : \A x \in S : x <= m

\* views.filter(x => x.viewerIp === viewerIp).map(x => x.date)
DatesOf(vs, ip) == {vs[i].date : i \in {j \in 1..Len(vs) : vs[j].viewerIp = ip}}

\* Mutant: the cooldown compares with >= instead of >.
CooldownElapsed_Inclusive(d, dates) ==
  IF dates = {} THEN TRUE ELSE d - SetMax(dates) >= TIME_BETWEEN_SAME_USER_VIEWS

\* date - Math.max.apply(null, dates) > TIME_BETWEEN_SAME_USER_VIEWS, where
\* Math.max of no argument is -Infinity, so that the difference is +Infinity.
CooldownElapsed(d, dates) ==
  IF dates = {} THEN TRUE ELSE d - SetMax(dates) > TIME_BETWEEN_SAME_USER_VIEWS

\* Mutant: the condition of line 67 without its test of viewerIp.
ShouldRecord_NoAddressCheck(vs, ip, d) ==
  Len(vs) = 0 \/ CooldownElapsed(d, DatesOf(vs, ip))

\* The condition of line 67.
ShouldRecord(vs, ip, d) ==
  Truthy(ip) /\ (Len(vs) = 0 \/ CooldownElapsed(d, DatesOf(vs, ip)))

NewView(p) ==
  [viewedSerie |-> NFT[p].serieId, viewedId |-> arg[p].id,
   viewer |-> arg[p].viewerWalletId, viewerIp |-> arg[p].viewerIp, date |-> date[p]]

Thrown(p) ==
  /\ pc' = [pc EXCEPT ![p] = "failed"]
  /\ result' = [result EXCEPT ![p] =
       [kind |-> "error", viewsCount |-> 0, error |-> "Couldn't get NFT"]]
  /\ UNCHANGED last

Returned(p, count, rec) ==
  /\ pc' = [pc EXCEPT ![p] = "done"]
  /\ result' = [result EXCEPT ![p] =
       [kind |-> "ok", viewsCount |-> count, error |-> NULL]]
  /\ last' = IF arg[p].incViews /\ Truthy(arg[p].viewerIp)
             THEN [id |-> arg[p].id, viewerIp |-> arg[p].viewerIp, date |-> date[p],
                   recorded |-> rec]
             ELSE last

\* The call: the request to the indexer is issued (line 59).
GetNFT_Call(p, id, incViews, viewerWalletId, viewerIp) ==
  /\ pc[p] = "idle"
  /\ pc' = [pc EXCEPT ![p] = "request"]
  /\ arg' = [arg EXCEPT ![p] = [id |-> id, incViews |-> incViews,
                                viewerWalletId |-> viewerWalletId, viewerIp |-> viewerIp]]
  /\ UNCHANGED <<now, nftViews, NFT, date, viewsLength, result, last>>
  /\ UNCHANGED <<catVars, listVars, statVars>>

\* Lines 59-61: the indexer answers (or the request rejects); no node throws.
GetNFT_Request(p) ==
  /\ pc[p] = "request"
  /\ \/ /\ Thrown(p)
        /\ UNCHANGED NFT
     \/ /\ NFTfromId(arg[p].id) = {}
        /\ Thrown(p)
        /\ UNCHANGED NFT
     \/ /\ \E n \in NFTfromId(arg[p].id) : NFT' = [NFT EXCEPT ![p] = n]
        /\ pc' = [pc EXCEPT ![p] = "populate"]
        /\ UNCHANGED <<result, last>>
  /\ UNCHANGED <<now, nftViews, arg, date, viewsLength>>
  /\ UNCHANGED <<catVars, listVars, statVars>>

\* Lines 62-65: populateNFT resolves or rejects; without incViews the call
\* returns viewsCount 0, with it the clock is read and the find is issued.
GetNFT_Populate(p) ==
  /\ pc[p] = "populate"
  /\ \/ /\ Thrown(p)
        /\ UNCHANGED date
     \/ /\ ~arg[p].incViews
        /\ Returned(p, 0, FALSE)
        /\ UNCHANGED date
     \/ /\ arg[p].incViews
        /\ date' = [date EXCEPT ![p] = now]
        /\ pc' = [pc EXCEPT ![p] = "find"]
        /\ UNCHANGED <<result, last>>
  /\ UNCHANGED <<now, nftViews, arg, NFT, viewsLength>>
  /\ UNCHANGED <<catVars, listVars, statVars>>

\* Lines 66-67 and 71-73: the find resolves with the store as it is now, and
\* the cooldown condition sends the call to the save or to its return.
GetNFT_Find(p) ==
  /\ pc[p] = "find"
  /\ \/ /\ Thrown(p)
        /\ UNCHANGED viewsLength
     \/ LET vs == FindViews(nftViews, ViewFilter(NFT[p], arg[p].id)) IN
        /\ viewsLength' = [viewsLength EXCEPT ![p] = Len(vs)]
        /\ IF ShouldRecord(vs, arg[p].viewerIp, date[p])
             THEN /\ pc' = [pc EXCEPT ![p] = "save"]
                  /\ UNCHANGED <<result, last>>
             ELSE Returned(p, Len(vs), FALSE)
  /\ UNCHANGED <<now, nftViews, arg, NFT, date>>
  /\ UNCHANGED <<catVars, listVars, statVars>>

\* Mutant: the count returned after a save is views.length, without the + 1.
GetNFT_Save_StaleCount(p) ==
  /\ pc[p] = "save"
  /\ \/ /\ Thrown(p)
        /\ UNCHANGED nftViews
     \/ /\ Len(nftViews) < MaxViews
        /\ nftViews' = Append(nftViews, NewView(p))
        /\ Returned(p, viewsLength[p], TRUE)
  /\ UNCHANGED <<now, arg, NFT, date, viewsLength>>
  /\ UNCHANGED <<catVars, listVars, statVars>>

\* Mutant: the save is serialized with the check: it reads the events again
\* and writes nothing when the address has a recent event by now.
GetNFT_Save_Recheck(p) ==
  /\ pc[p] = "save"
  /\ \/ /\ Thrown(p)
        /\ UNCHANGED nftViews
     \/ LET vs == FindViews(nftViews, ViewFilter(NFT[p], arg[p].id)) IN
        IF ShouldRecord(vs, arg[p].viewerIp, date[p])
          THEN /\ Len(nftViews) < MaxViews
               /\ nftViews' = Append(nftViews, NewView(p))
               /\ Returned(p, Len(vs) + 1, TRUE)
          ELSE /\ UNCHANGED nftViews
               /\ Returned(p, Len(vs), FALSE)
  /\ UNCHANGED <<now, arg, NFT, date, viewsLength>>
  /\ UNCHANGED <<catVars, listVars, statVars>>

\* Mutant: a save that rejects has stored its event all the same.
GetNFT_Save_RejectAfterWrite(p) ==
  /\ pc[p] = "save"
  /\ Len(nftViews) < MaxViews
  /\ nftViews' = Append(nftViews, NewView(p))
  /\ \/ Thrown(p)
     \/ Returned(p, viewsLength[p] + 1, TRUE)
  /\ UNCHANGED <<now, arg, NFT, date, viewsLength>>
  /\ UNCHANGED <<catVars, listVars, statVars>>

\* Lines 68-70: the save resolves (the event is stored) or rejects.
GetNFT_Save(p) ==
  /\ pc[p] = "save"
  /\ \/ /\ Thrown(p)
        /\ UNCHANGED nftViews
     \/ /\ Len(nftViews) < MaxViews
        /\ nftViews' = Append(nftViews, NewView(p))
        /\ Returned(p, viewsLength[p] + 1, TRUE)
  /\ UNCHANGED <<now, arg, NFT, date, viewsLength>>
  /\ UNCHANGED <<catVars, listVars, statVars>>

\* The caller has the answer; the request slot is free again.
GetNFT_Finish(p) ==
  /\ pc[p] \in {"done", "failed"}
  /\ pc' = [pc EXCEPT ![p] = "idle"]
  /\ arg' = [arg EXCEPT ![p] = NoArg]
  /\ NFT' = [NFT EXCEPT ![p] = NoNFT]
  /\ date' = [date EXCEPT ![p] = 0]
  /\ viewsLength' = [viewsLength EXCEPT ![p] = 0]
  /\ result' = [result EXCEPT ![p] = NoResult]
  /\ UNCHANGED <<now, nftViews, last>>
  /\ UNCHANGED <<catVars, listVars, statVars>>

Tick ==
  /\ now < MaxTime
  /\ now' = now + 1
  /\ UNCHANGED <<nftViews, pc, arg, NFT, date, viewsLength, result, last>>
  /\ UNCHANGED <<catVars, listVars, statVars>>

Init ==
  /\ now = 0
  /\ nftViews = <<>>
  /\ pc = [p \in Procs |-> "idle"]
  /\ arg = [p \in Procs |-> NoArg]
  /\ NFT = [p \in Procs |-> NoNFT]
  /\ date = [p \in Procs |-> 0]
  /\ viewsLength = [p \in Procs |-> 0]
  /\ result = [p \in Procs |-> NoResult]
  /\ last = NoLast
  /\ nftModel = <<>>
  /\ catCall = NoCatCall
  /\ listPc = "idle"
  /\ listOp = NULL
  /\ listNFTs = <<>>
  /\ lookups = <<>>
  /\ lookupsIssued = 0
  /\ listResult = NoListResult
  /\ follows = {}
  /\ statPc = "idle"
  /\ userWalletId = NULL
  /\ user = NoUser
  /\ replies = NoReplies
  /\ queriesIssued = 0
  /\ statResult = NoStatResult

InProgress(p) == pc[p] \notin {"idle"}

Call(p, ids, ips) ==
  \E id \in ids, incViews \in BOOLEAN, w \in ViewerWalletIds, ip \in ips :
     GetNFT_Call(p, id, incViews, w, ip)

Step(p) ==
  \/ GetNFT_Request(p)
  \/ GetNFT_Populate(p)
  \/ GetNFT_Find(p)
  \/ GetNFT_Save(p)
  \/ GetNFT_Finish(p)

\* Requests for one NFT that overlap freely.
Next ==
  \/ \E p \in Procs : Call(p, {"1", "9"}, {NULL, "1.2.3.4"})
  \/ \E p \in Procs : Step(p)
  \/ Tick

Spec == Init /\ [][Next]_vars

\* Requests that never overlap: a call starts when no other is in progress.
SeqCall(ids, ips) ==
  \E p \in Procs : (\A q \in Procs : ~InProgress(q)) /\ Call(p, ids, ips)

NextSeq ==
  \/ SeqCall({"1", "3", "9"}, ViewerIps)
  \/ \E p \in Procs : Step(p)
  \/ Tick

SpecSeq == Init /\ [][NextSeq]_vars

\* Requests that never overlap, over the NFTs of a serie and the NFTs of none.
NextSerie ==
  \/ SeqCall({n.id : n \in ChainNFTs}, {"1.2.3.4"})
  \/ \E p \in Procs : Step(p)
  \/ Tick

SpecSerie == Init /\ [][NextSerie]_vars

\* ------------------------------------------------------------ list operations
\* getAllNFTs, getNFTsFromOwner, getNFTsFromCreator, getNFTsFromIds,
\* getNFTsFromIdsDistinct and getNFTsNotInIds are one body: the request, then
\* Promise.all over one populateNFT per node, inside one try/catch.
ListOps == {"getAllNFTs", "getNFTsFromOwner", "getNFTsFromCreator",
            "getNFTsFromIds", "getNFTsFromIdsDistinct", "getNFTsNotInIds"}

\* The message of each operation's catch.
ListError(op) ==
  CASE op = "getAllNFTs" -> "Couldn't get NFTs"
    [] op = "getNFTsFromOwner" -> "Couldn't get user's owned NFTs"
    [] op = "getNFTsFromCreator" -> "Couldn't get creator's NFTs"
    [] op = "getNFTsFromIds" -> "Couldn't get NFTs from ids"
    [] op = "getNFTsFromIdsDistinct" -> "Couldn't get NFTs from ids"
    [] op = "getNFTsNotInIds" -> "Couldn't get NFTs not in ids"

ChainIds == {n.id : n \in ChainNFTs}

\* The node lists the indexer may answer with: up to MaxBatch distinct records.
NodeLists ==
  {ns \in UNION {[1..k -> ChainIds] : k \in 0..MaxBatch} :
     \A i, j \in DOMAIN ns : i # j => ns[i] # ns[j]}

List_Call(op) ==
  /\ listPc = "idle"
  /\ listPc' = "request"
  /\ listOp' = op
  /\ UNCHANGED <<listNFTs, lookups, lookupsIssued, listResult>>
  /\ UNCHANGED <<viewVars, catVars, statVars>>

List_Throw ==
  /\ listPc' = "failed"
  /\ listResult' = [kind |-> "error", nodes |-> <<>>, error |-> ListError(listOp)]

\* The request resolves and NFTs.map starts one populateNFT per node, all before
\* anything is awaited; or the request rejects and the catch throws.
List_Request ==
  /\ listPc = "request"
  /\ \/ /\ List_Throw
        /\ UNCHANGED <<listNFTs, lookups, lookupsIssued>>
     \/ \E ns \in NodeLists :
          /\ listNFTs' = ns
          /\ lookups' = [i \in DOMAIN ns |-> "pending"]
          /\ lookupsIssued' = lookupsIssued + Len(ns)
          /\ listPc' = "enrich"
          /\ UNCHANGED listResult
  /\ UNCHANGED listOp
  /\ UNCHANGED <<viewVars, catVars, statVars>>

\* One populateNFT promise settles; the others are running, in any order, also
\* after Promise.all has rejected.
List_Lookup(i) ==
  /\ listPc \in {"enrich", "failed"}
  /\ i \in DOMAIN lookups
  /\ lookups[i] = "pending"
  /\ \E outcome \in {"fulfilled", "rejected"} :
        lookups' = [lookups EXCEPT ![i] = outcome]
  /\ UNCHANGED <<listPc, listOp, listNFTs, lookupsIssued, listResult>>
  /\ UNCHANGED <<viewVars, catVars, statVars>>

\* Mutant: the rejected lookups are dropped and the rest is returned.
List_Settle_Partial ==
  /\ listPc = "enrich"
  /\ \A i \in DOMAIN lookups : lookups[i] # "pending"
  /\ listPc' = "done"
  /\ listResult' = [kind |-> "ok", error |-> NULL,
                    nodes |-> SelectSeq(listNFTs,
                       LAMBDA id : \E i \in DOMAIN lookups :
                                      listNFTs[i] = id /\ lookups[i] = "fulfilled")]
  /\ UNCHANGED <<listOp, listNFTs, lookups, lookupsIssued>>
  /\ UNCHANGED <<viewVars, catVars, statVars>>

\* Promise.all settles: it rejects once one lookup has rejected, and resolves
\* with every populated node once all have fulfilled.
List_Settle ==
  /\ listPc = "enrich"
  /\ \/ /\ \E i \in DOMAIN lookups : lookups[i] = "rejected"
        /\ List_Throw
     \/ /\ \A i \in DOMAIN lookups : lookups[i] = "fulfilled"
        /\ listPc' = "done"
        /\ listResult' = [kind |-> "ok", nodes |-> listNFTs, error |-> NULL]
  /\ UNCHANGED <<listOp, listNFTs, lookups, lookupsIssued>>
  /\ UNCHANGED <<viewVars, catVars, statVars>>

List_Finish ==
  /\ listPc \in {"done", "failed"}
  /\ listPc' = "idle"
  /\ listOp' = NULL
  /\ listNFTs' = <<>>
  /\ lookups' = <<>>
  /\ lookupsIssued' = 0
  /\ listResult' = NoListResult
  /\ UNCHANGED <<viewVars, catVars, statVars>>

NextList ==
  \/ \E op \in ListOps : List_Call(op)
  \/ List_Request
  \/ \E i \in 1..MaxBatch : List_Lookup(i)
  \/ List_Settle
  \/ List_Finish

SpecList == Init /\ [][NextList]_vars

\* ------------------------------------------------------------ getStatNFTsUser
\* The UserModel collection.  No user has wallet "w9".
Users == { [_id |-> "u1", walletId |-> "w1"], [_id |-> "u2", walletId |-> "w2"] }
UserIds == {u._id : u \in Users}
WalletIds == {u.walletId : u \in Users} \cup {"w9"}

\* UserModel.findOne({walletId}): a user of that wallet, or null (NoUser).
FindUser(walletId) ==
  IF \E u \in Users : u.walletId = walletId
    THEN CHOOSE u \in Users : u.walletId = walletId
    ELSE NoUser

\* FollowModel.find({followed: id}) and FollowModel.find({follower: id}).
FindFollowed(id) == {e \in follows : e[2] = id}
FindFollower(id) == {e \in follows : e[1] = id}

\* The follow sub-resource adds and removes edges, here between the calls of
\* getStatNFTsUser.
Follow(a, b) ==
  /\ statPc = "idle"
  /\ a # b
  /\ follows' = follows \cup {<<a, b>>}
  /\ UNCHANGED <<statPc, userWalletId, user, replies, queriesIssued, statResult>>
  /\ UNCHANGED <<viewVars, catVars, listVars>>

Unfollow(a, b) ==
  /\ statPc = "idle"
  /\ <<a, b>> \in follows
  /\ follows' = follows \ {<<a, b>>}
  /\ UNCHANGED <<statPc, userWalletId, user, replies, queriesIssued, statResult>>
  /\ UNCHANGED <<viewVars, catVars, listVars>>

Stat_Call(walletId) ==
  /\ statPc = "idle"
  /\ statPc' = "findUser"
  /\ userWalletId' = walletId
  /\ UNCHANGED <<follows, user, replies, queriesIssued, statResult>>
  /\ UNCHANGED <<viewVars, catVars, listVars>>

Stat_Throw ==
  /\ statPc' = "failed"
  /\ statResult' = [NoStatResult EXCEPT !.kind = "error",
                                        !.error = "Couldn't get users stat"]

\* Lines 135-144: findOne resolves; without user the call throws, with one the
\* six queries are issued together.
Stat_FindUser ==
  /\ statPc = "findUser"
  /\ \/ /\ Stat_Throw
        /\ UNCHANGED <<user, queriesIssued>>
     \/ /\ FindUser(userWalletId) = NoUser
        /\ Stat_Throw
        /\ UNCHANGED <<user, queriesIssued>>
     \/ /\ FindUser(userWalletId) # NoUser
        /\ user' = FindUser(userWalletId)
        /\ queriesIssued' = queriesIssued + 6
        /\ statPc' = "counts"
        /\ UNCHANGED statResult
  /\ UNCHANGED <<follows, userWalletId, replies>>
  /\ UNCHANGED <<viewVars, catVars, listVars>>

\* Line 137: Promise.all resolves with the four totals the indexer reports and
\* the two edge lists, or rejects because one of the six did.
Stat_Counts ==
  /\ statPc = "counts"
  /\ \/ /\ Stat_Throw
        /\ UNCHANGED replies
     \/ \E o, l, u, c \in 0..MaxTotal :
          /\ replies' = [owned |-> o, ownedListed |-> l, ownedUnlisted |-> u,
                         created |-> c,
                         followers |-> FindFollowed(user._id),
                         followed |-> FindFollower(user._id)]
          /\ statPc' = "compute"
          /\ UNCHANGED statResult
  /\ UNCHANGED <<follows, userWalletId, user, queriesIssued>>
  /\ UNCHANGED <<viewVars, catVars, listVars>>

\* Mutant: followers and followed are taken from each other's list.
Stat_Return_Swapped ==
  /\ statPc = "compute"
  /\ statPc' = "done"
  /\ statResult' = [kind |-> "ok", error |-> NULL,
       countOwned |-> replies.owned,
       countOwnedListed |-> replies.ownedListed,
       countOwnedUnlisted |-> replies.ownedUnlisted,
       countCreated |-> replies.created,
       countFollowers |-> Cardinality(replies.followed),
       countFollowed |-> Cardinality(replies.followers)]
  /\ UNCHANGED <<follows, userWalletId, user, replies, queriesIssued>>
  /\ UNCHANGED <<viewVars, catVars, listVars>>

\* Lines 145-151: the six counts are read off the replies and returned.
Stat_Return ==
  /\ statPc = "compute"
  /\ statPc' = "done"
  /\ statResult' = [kind |-> "ok", error |-> NULL,
       countOwned |-> replies.owned,
       countOwnedListed |-> replies.ownedListed,
       countOwnedUnlisted |-> replies.ownedUnlisted,
       countCreated |-> replies.created,
       countFollowers |-> Cardinality(replies.followers),
       countFollowed |-> Cardinality(replies.followed)]
  /\ UNCHANGED <<follows, userWalletId, user, replies, queriesIssued>>
  /\ UNCHANGED <<viewVars, catVars, listVars>>

Stat_Finish ==
  /\ statPc \in {"done", "failed"}
  /\ statPc' = "idle"
  /\ userWalletId' = NULL
  /\ user' = NoUser
  /\ replies' = NoReplies
  /\ queriesIssued' = 0
  /\ statResult' = NoStatResult
  /\ UNCHANGED follows
  /\ UNCHANGED <<viewVars, catVars, listVars>>

NextStat ==
  \/ \E a, b \in UserIds \cup {"u3"} : Follow(a, b)
  \/ \E a, b \in UserIds \cup {"u3"} : Unfollow(a, b)
  \/ \E w \in WalletIds : Stat_Call(w)
  \/ Stat_FindUser
  \/ Stat_Counts
  \/ Stat_Return
  \/ Stat_Finish

SpecStat == Init /\ [][NextStat]_vars

\* ------------------------------------------------------------ categories
\* The categories CategoryService knows.  Code "bogus" resolves to nothing.
Categories == { [_id |-> "c1", code |-> "art"], [_id |-> "c2", code |-> "music"] }
Codes == {c.code : c \in Categories} \cup {"bogus"}
CodeLists == UNION {[1..k -> Codes] : k \in 0..MaxCodes}

\* CategoryService.getCategoryByCode(x): the category's _id, or null.
GetCategoryByCode(x) ==
  IF \E c \in Categories : c.code = x
    THEN (CHOOSE c \in Categories : c.code = x)._id
    ELSE NULL

\* Lines 270-284: every code is resolved, an unresolvable one to null, and the
\* document is saved with that array; a rejection leaves the collection as it is.
CreateNFT(chainId, codes) ==
  /\ Len(nftModel) < MaxDocs
  /\ LET categories == [i \in DOMAIN codes |-> GetCategoryByCode(codes[i])]
         data == [chainId |-> chainId, categories |-> categories]
     IN \/ nftModel' = Append(nftModel, data)
        \/ UNCHANGED nftModel
  /\ catCall' = NoCatCall
  /\ UNCHANGED <<viewVars, listVars, statVars>>

\* NftModel.findOne({chainId}): the first document of that chain id, if any.
HasMongoNft(id) == \E i \in DOMAIN nftModel : nftModel[i].chainId = id
FindMongoNftFromId(id) ==
  nftModel[CHOOSE i \in DOMAIN nftModel :
             /\ nftModel[i].chainId = id
             /\ \A j \in DOMAIN nftModel : nftModel[j].chainId = id => i <= j]

\* populateNFT: the node with the categories of its local document, or with
\* none when it has no document.
PopulateNFT(n) ==
  [id |-> n.id, serieId |-> n.serieId,
   categories |-> IF HasMongoNft(n.id) THEN FindMongoNftFromId(n.id).categories
                                       ELSE <<>>]

\* The distinctSerieNfts answers of the indexer over the records S: every
\* record of serie "0" and one record of each other serie.
DistinctSerieNfts(S) ==
  {D \in SUBSET S :
     /\ \A n \in S : n.serieId = "0" => n \in D
     /\ \A n \in S : \E m \in D : m.serieId = n.serieId
     /\ \A m1, m2 \in D : (m1.serieId = m2.serieId /\ m1.serieId # "0") => m1 = m2}

\* The query of line 228: categories exists and is neither [] nor null, nor, as
\* $nin reads an array field, holds an element that is null.
MatchesCategorized(doc) ==
  /\ doc.categories # <<>>
  /\ \A i \in DOMAIN doc.categories : doc.categories[i] # NULL

\* What the driver sends for an element of the $in array of line 248: undefined,
\* the value of the callback of line 241 for an unresolvable code, is written
\* as null.
QueryValue(c) == IF c = UNDEFINED THEN NULL ELSE c

\* The query of line 248: some element of categories is among the values.
MatchesIn(doc, categories) ==
  \E i \in DOMAIN doc.categories, j \in DOMAIN categories :
     doc.categories[i] = QueryValue(categories[j])

\* mongoNfts.map((nft) => nft.chainId), over the matching documents.
ChainIdsOf(matching) == {nftModel[i].chainId : i \in matching}

\* Lines 225-263, codes === null: the ids of the categorized documents are
\* excluded through getNFTsNotInIds, and the nodes are populated.
GetNFTsFromCategories_Null ==
  /\ \/ catCall' = [kind |-> "error", byCodes |-> FALSE, codes |-> <<>>, nodes |-> {},
                    error |-> "Couldn't get NFTs by categories"]
     \/ LET ids == ChainIdsOf({i \in DOMAIN nftModel : MatchesCategorized(nftModel[i])}) IN
        \E D \in DistinctSerieNfts({n \in ChainNFTs : n.id \notin ids}) :
           catCall' = [kind |-> "ok", byCodes |-> FALSE, codes |-> <<>>,
                       nodes |-> {PopulateNFT(n) : n \in D}, error |-> NULL]
  /\ UNCHANGED nftModel
  /\ UNCHANGED <<viewVars, listVars, statVars>>

\* Lines 239-259, codes a list: every code is mapped to its category id, or to
\* undefined; the documents holding one of these are looked up and their ids
\* requested through getNFTsFromIdsDistinct, and the nodes are populated.
GetNFTsFromCategories_Codes(codes) ==
  /\ \/ catCall' = [kind |-> "error", byCodes |-> TRUE, codes |-> codes, nodes |-> {},
                    error |-> "Couldn't get NFTs by categories"]
     \/ LET categories == [i \in DOMAIN codes |->
                             IF GetCategoryByCode(codes[i]) # NULL
                               THEN GetCategoryByCode(codes[i]) ELSE UNDEFINED]
            ids == ChainIdsOf({i \in DOMAIN nftModel : MatchesIn(nftModel[i], categories)})
        IN \E D \in DistinctSerieNfts({n \in ChainNFTs : n.id \in ids}) :
              catCall' = [kind |-> "ok", byCodes |-> TRUE, codes |-> codes,
                          nodes |-> {PopulateNFT(n) : n \in D}, error |-> NULL]
  /\ UNCHANGED nftModel
  /\ UNCHANGED <<viewVars, listVars, statVars>>

\* Local documents are made for NFTs "1" and "2" of serie "s1" and for NFT "3",
\* one document per chain id.
CreateOnce(ids) ==
  \E id \in ids, codes \in CodeLists : ~HasMongoNft(id) /\ CreateNFT(id, codes)

NextCat ==
  \/ CreateOnce({"1", "2", "3"})
  \/ GetNFTsFromCategories_Null
  \/ \E codes \in CodeLists : GetNFTsFromCategories_Codes(codes)

SpecCat == Init /\ [][NextCat]_vars

\* ================================================================ claims
\* The subject a view event counts for: the serie, or the NFT without one.
Subject(n) == IF n.serieId # "0" THEN <<"serie", n.serieId>> ELSE <<"id", n.id>>
EventSubject(v) ==
  IF v.viewedSerie # "0" THEN <<"serie", v.viewedSerie>> ELSE <<"id", v.viewedId>>
StoredFor(store, n) == {i \in 1..Len(store) : EventSubject(store[i]) = Subject(n)}

\* The step in which a view-counting call returns to its caller.
Completes(p) == pc[p] \in {"find", "save"} /\ pc'[p] = "done"

\* An event of address ip for the subject of n, at most the cooldown before d.
RecentFrom(store, n, ip, d) ==
  \E i \in StoredFor(store, n) :
     store[i].viewerIp = ip /\ d - store[i].date <= TIME_BETWEEN_SAME_USER_VIEWS

\* C1 as stated: of two successive calls on the same NFT from the same address,
\* the second, made within the cooldown of the first, stores no view event.
C1_Original ==
  [][\A p \in Procs :
       (Completes(p) /\ Truthy(arg[p].viewerIp)
        /\ last.id = arg[p].id /\ last.viewerIp = arg[p].viewerIp
        /\ date[p] - last.date <= TIME_BETWEEN_SAME_USER_VIEWS)
       => nftViews' = nftViews]_vars

\* C1 amended: a returning call with a viewer address stores nothing when that
\* address has a stored event for the subject at most the cooldown old (so the
\* second of two calls within the cooldown adds nothing when the first one
\* stored its event), and stores exactly one event otherwise.
C1_Cooldown ==
  [][\A p \in Procs :
       (Completes(p) /\ Truthy(arg[p].viewerIp)) =>
         /\ RecentFrom(nftViews, NFT[p], arg[p].viewerIp, date[p])
              => nftViews' = nftViews
         /\ ~RecentFrom(nftViews, NFT[p], arg[p].viewerIp, date[p])
              => /\ Len(nftViews') = Len(nftViews) + 1
                 /\ Cardinality(StoredFor(nftViews', NFT[p]))
                      = Cardinality(StoredFor(nftViews, NFT[p])) + 1
         /\ (last.recorded /\ last.id = arg[p].id /\ last.viewerIp = arg[p].viewerIp
             /\ date[p] - last.date <= TIME_BETWEEN_SAME_USER_VIEWS)
              => nftViews' = nftViews]_vars

\* Three calls from one address on NFT "1": the first stored an event, and the
\* one that just returned stored the second, after the cooldown had elapsed.
C1_Witness ==
  \E p \in Procs :
     /\ pc[p] = "done" /\ arg[p].id = "1" /\ arg[p].viewerIp = "1.2.3.4"
     /\ last.recorded /\ result[p].viewsCount = 2
     /\ Len(nftViews) = 2
     /\ nftViews[1].viewerIp = "1.2.3.4" /\ nftViews[2].viewerIp = "1.2.3.4"
     /\ nftViews[1].viewedId = "1" /\ nftViews[2].viewedId = "1"
     /\ nftViews[2].date - nftViews[1].date > TIME_BETWEEN_SAME_USER_VIEWS

\* C2: a call with incViews that returns gives prior + 1 exactly when it stored
\* an event and prior otherwise, which is the number of events stored for the
\* subject when it returns; with no prior event and an address it gives 1 and
\* stores exactly one event.
C2_ViewsCount ==
  [][\A p \in Procs :
       Completes(p) =>
         LET prior == Cardinality(StoredFor(nftViews, NFT[p]))
             stored == nftViews' # nftViews
         IN /\ result'[p].viewsCount = (IF stored THEN prior + 1 ELSE prior)
            /\ result'[p].viewsCount = Cardinality(StoredFor(nftViews', NFT[p]))
            /\ (prior = 0 /\ Truthy(arg[p].viewerIp))
                 => /\ result'[p].viewsCount = 1
                    /\ Len(nftViews') = Len(nftViews) + 1]_vars

\* The spec's example: no prior view, an address, viewsCount 1, one event.
C2_Witness ==
  \E p \in Procs :
     /\ pc[p] = "done" /\ arg[p].incViews /\ arg[p].viewerIp = "1.2.3.4"
     /\ result[p].viewsCount = 1
     /\ Len(nftViews) = 1 /\ nftViews[1].viewedId = arg[p].id

\* C3: nothing stands between a passed cooldown check and the write: a call
\* at its save stores its event and returns views.length + 1, whatever was
\* stored since it read the events.
C3_NoMutualExclusion ==
  [][\A p \in Procs :
       (pc[p] = "save" /\ pc'[p] = "done") =>
          /\ Len(nftViews') = Len(nftViews) + 1
          /\ nftViews'[Len(nftViews')].viewerIp = arg[p].viewerIp
          /\ nftViews'[Len(nftViews')].date = date[p]
          /\ result'[p].viewsCount = viewsLength[p] + 1]_vars

\* Two overlapping calls of one address on one NFT have both stored an event,
\* within one cooldown window, and both returned the same viewsCount.
C3_Witness ==
  /\ pc[1] = "done" /\ pc[2] = "done"
  /\ arg[1].id = arg[2].id /\ arg[1].viewerIp = arg[2].viewerIp
  /\ Truthy(arg[1].viewerIp)
  /\ result[1].viewsCount = result[2].viewsCount
  /\ Len(nftViews) = 2
  /\ nftViews[1].viewerIp = nftViews[2].viewerIp
  /\ nftViews[1].viewedId = nftViews[2].viewedId
  /\ nftViews[2].date - nftViews[1].date <= TIME_BETWEEN_SAME_USER_VIEWS
  /\ nftViews[1].date - nftViews[2].date <= TIME_BETWEEN_SAME_USER_VIEWS

\* C4: a call with incViews and a null viewer address never reaches the save,
\* changes no view event, and when its find resolves it returns the number of
\* events stored for the subject.
C4_NoAddress ==
  [][\A p \in Procs :
       (arg[p].incViews /\ arg[p].viewerIp = NULL /\ pc'[p] # pc[p]) =>
          /\ nftViews' = nftViews
          /\ pc'[p] # "save"
          /\ Completes(p) =>
               result'[p].viewsCount = Cardinality(StoredFor(nftViews, NFT[p]))]_vars

\* A call without address has returned the count of an NFT viewed before.
C4_Witness ==
  \E p \in Procs :
     /\ pc[p] = "done" /\ arg[p].incViews /\ arg[p].viewerIp = NULL
     /\ result[p].viewsCount = 1 /\ Len(nftViews) = 1
     /\ now - nftViews[1].date > TIME_BETWEEN_SAME_USER_VIEWS
\* The serie an id belongs to, as the indexer tells it.
SerieOfId(id) == (CHOOSE n \in ChainNFTs : n.id = id).serieId

\* The events that count for NFT n: those of every NFT of its serie, or its
\* own alone when its serie is "0".
CountedFor(store, n) ==
  IF n.serieId # "0"
    THEN {i \in 1..Len(store) : SerieOfId(store[i].viewedId) = n.serieId}
    ELSE {i \in 1..Len(store) : store[i].viewedId = n.id}

\* C9: NFTs of one serie other than "0" share their view events and their
\* cooldown; an NFT of serie "0" counts, and is cooled down by, the events of
\* its own id alone.
C9_SerieScope ==
  [][\A p \in Procs :
       Completes(p) =>
         LET recent == \E i \in CountedFor(nftViews, NFT[p]) :
                          /\ nftViews[i].viewerIp = arg[p].viewerIp
                          /\ date[p] - nftViews[i].date <= TIME_BETWEEN_SAME_USER_VIEWS
         IN /\ result'[p].viewsCount = Cardinality(CountedFor(nftViews', NFT[p]))
            /\ Truthy(arg[p].viewerIp) => (recent <=> nftViews' = nftViews)]_vars

\* NFT "2" was requested within the cooldown of a view of its sibling "1" by
\* the same address: the call counted the sibling's view and stored nothing.
C9_Witness ==
  \E p \in Procs :
     /\ pc[p] = "done" /\ arg[p].id = "2" /\ arg[p].incViews
     /\ result[p].viewsCount = 1 /\ ~last.recorded /\ last.id = "2"
     /\ Len(nftViews) = 1 /\ nftViews[1].viewedId = "1"
     /\ nftViews[1].viewerIp = arg[p].viewerIp

\* C10: the stored view events change only by the save of a getNFT call with
\* incViews that then returns: one event is appended and none is removed or
\* altered; a call that throws stores nothing, and a call without incViews
\* stores nothing and returns viewsCount 0.
C10_ViewStore ==
  [][/\ Len(nftViews') >= Len(nftViews)
     /\ Len(nftViews') <= Len(nftViews) + 1
     /\ SubSeq(nftViews', 1, Len(nftViews)) = nftViews
     /\ nftViews' # nftViews =>
          \E p \in Procs : /\ arg[p].incViews /\ pc[p] = "save" /\ pc'[p] = "done"
                           /\ result'[p].kind = "ok"
     /\ \A p \in Procs :
          /\ (pc[p] # "failed" /\ pc'[p] = "failed") =>
                /\ nftViews' = nftViews
                /\ result'[p].error = "Couldn't get NFT"
          /\ (pc[p] # "done" /\ pc'[p] = "done" /\ ~arg[p].incViews) =>
                /\ nftViews' = nftViews
                /\ result'[p].viewsCount = 0]_vars

\* A call failed after the indexer had answered, another without incViews
\* returned 0, and the one event stored before is still there.
C10_Witness ==
  \E p, q \in Procs :
     /\ pc[p] = "failed" /\ arg[p].incViews /\ NFT[p] # NoNFT
     /\ Truthy(arg[p].viewerIp)
     /\ pc[q] = "done" /\ ~arg[q].incViews /\ result[q].viewsCount = 0
     /\ Len(nftViews) = 1 /\ nftViews[1].viewedId = arg[p].id
\* C7: a list operation returns only when every lookup of its batch has
\* fulfilled, and then all the nodes; once the request or one lookup has
\* rejected it throws the operation's own message with no node; and each node's
\* lookup is issued once.
C7_AllOrNothing ==
  /\ listPc = "done" =>
       /\ \A i \in DOMAIN lookups : lookups[i] = "fulfilled"
       /\ listResult.kind = "ok" /\ listResult.nodes = listNFTs
  /\ listPc = "failed" =>
       /\ listResult.kind = "error" /\ listResult.nodes = <<>>
       /\ listResult.error = ListError(listOp)
  /\ (\E i \in DOMAIN lookups : lookups[i] = "rejected") => listPc # "done"
  /\ listPc \in {"enrich", "done", "failed"} => lookupsIssued = Len(listNFTs)
  /\ listPc \in {"idle", "request"} => lookupsIssued = 0

\* One lookup of a batch of two rejected, the other fulfilled: the call threw.
C7_Witness ==
  /\ listPc = "failed" /\ Len(listNFTs) = 2
  /\ lookups[1] = "fulfilled" /\ lookups[2] = "rejected"
  /\ listResult.error = "Couldn't get NFTs from ids"
\* C8: a wallet without user makes getStatNFTsUser throw its generic error
\* with no count query issued; a call that returns gives the four totals the
\* indexer reported and, for followers and followed, the numbers of edges that
\* end, respectively start, at the user (0 and 0 without such edges).
C8_Stats ==
  /\ (statPc # "idle" /\ FindUser(userWalletId) = NoUser) =>
        /\ queriesIssued = 0
        /\ statPc \in {"findUser", "failed"}
        /\ statPc = "failed" => statResult.error = "Couldn't get users stat"
  /\ statPc = "done" =>
        LET id == FindUser(userWalletId)._id IN
        /\ queriesIssued = 6
        /\ statResult.countOwned = replies.owned
        /\ statResult.countOwnedListed = replies.ownedListed
        /\ statResult.countOwnedUnlisted = replies.ownedUnlisted
        /\ statResult.countCreated = replies.created
        /\ statResult.countFollowers = Cardinality({e \in follows : e[2] = id})
        /\ statResult.countFollowed = Cardinality({e \in follows : e[1] = id})
        /\ (\A e \in follows : e[1] # id /\ e[2] # id) =>
              statResult.countFollowers = 0 /\ statResult.countFollowed = 0

\* User u1 has two followers and follows nobody, and the stats say so, with
\* totals that differ from one another.
C8_Witness ==
  /\ statPc = "done" /\ userWalletId = "w1"
  /\ follows = {<<"u2", "u1">>, <<"u3", "u1">>}
  /\ statResult.countFollowers = 2 /\ statResult.countFollowed = 0
  /\ statResult.countOwned = 2 /\ statResult.countOwnedListed = 1
  /\ statResult.countOwnedUnlisted = 1 /\ statResult.countCreated = 0
\* The categories the codes resolve to, unresolvable codes skipped.
ResolvedOf(codes) ==
  {GetCategoryByCode(codes[i]) : i \in DOMAIN codes} \ {NULL}

\* Some local document of chain id `id` holds one of the categories cats.
TaggedWith(id, cats) ==
  \E i \in DOMAIN nftModel :
     /\ nftModel[i].chainId = id
     /\ \E k \in DOMAIN nftModel[i].categories : nftModel[i].categories[k] \in cats

\* C5: getNFTsFromCategories(codes), codes a list, returns only NFTs with a
\* local document holding a category one of the codes resolves to (so nothing
\* for unresolvable codes alone).
C5_Original ==
  (catCall.kind = "ok" /\ catCall.byCodes) =>
     \A n \in catCall.nodes : TaggedWith(n.id, ResolvedOf(catCall.codes))

\* C6: getNFTsFromCategories(null) returns only NFTs that carry no category
\* after enrichment and have no local document holding one.
C6_Original ==
  (catCall.kind = "ok" /\ ~catCall.byCodes) =>
     \A n \in catCall.nodes :
        /\ \A k \in DOMAIN n.categories : n.categories[k] = NULL
        /\ ~TaggedWith(n.id, {c._id : c \in Categories})

====
